---- MODULE Spec2Model ----
(***************************************************************************)
(* Model of binance_bot.py: the alert store (user_alerts), its JSON file   *)
(* (alerts.json), the /alert and /delete_alert command handlers and the    *)
(* periodic price_checker job.                                             *)
(*                                                                         *)
(* Scheduling.  Handlers and the job are coroutines of one asyncio event   *)
(* loop.  A coroutine runs without interruption between two awaits; the    *)
(* Binance client and the file functions are blocking calls, not awaits.   *)
(* The only await inside price_checker is context.bot.send_message; while  *)
(* the job is suspended there, a command handler can run.  Updates are     *)
(* processed one at a time and the job queue never overlaps two runs of    *)
(* the same job.                                                           *)
(*                                                                         *)
(* Spec is the bot with its checker job; SpecDelete is /delete_alert alone *)
(* on every store /alert commands can build, with every kind of argument.  *)
(* SpecAlert and SpecListing are /alert alone and /alert, /my_alerts and   *)
(* /delete_alert together on the same stores; SpecChart is /chart with its *)
(* awaits as separate steps and calculate_rsi on bounded close series;     *)
(* SpecInline is inline_query on bounded symbol caches; SpecLoad is        *)
(* load_alerts_from_file on the files the bot or an editor can leave.      *)
(***************************************************************************)
EXTENDS Integers, Sequences, FiniteSets, TLC

(* ------------------------------ bounds --------------------------------- *)

\* Number of alert objects ever created (loaded at startup or added by /alert).
MaxAlerts == 2

\* Number of trading pairs the exchange lists for the inline search.
MaxSymbols == 30

\* Number of candles of the longest history a /chart request fetches.
MaxCloses == 16

\* Chat identifiers (private chats are positive, group chats negative).
Chats == {1, -2}

\* Trading pairs known to the exchange, and one that is not.
ListedSymbols == {"BTC", "ETH"}

\* Spot prices the ticker can report, around the one threshold users set.
Prices == {9, 10, 11}

(* ------------------------- strings and numbers -------------------------- *)

\* A string is a sequence of one-character strings.
Digits == <<"0", "1", "2", "3", "4", "5", "6", "7", "8", "9">>

IsDigit(c) == \E d \in 1..10 : Digits[d] = c

DigitVal(c) == (CHOOSE d \in 1..10 : Digits[d] = c) - 1

RECURSIVE NatToStr(_)
NatToStr(n) ==
    IF n < 10 THEN <<Digits[n + 1]>>
    ELSE NatToStr(n \div 10) \o <<Digits[(n % 10) + 1]>>

\* A conversion that loses the sign.
IntToStrUnsigned(n) == NatToStr(IF n < 0 THEN 0 - n ELSE n)

\* str(k) of an int, as json.dump writes a dict key.
IntToStr(n) == IF n < 0 THEN <<"-">> \o NatToStr(0 - n) ELSE NatToStr(n)

RECURSIVE StrToNat(_)
StrToNat(s) ==
    IF Len(s) = 1 THEN DigitVal(s[1])
    ELSE 10 * StrToNat(SubSeq(s, 1, Len(s) - 1)) + DigitVal(s[Len(s)])

AllDigits(s) == Len(s) > 0 /\ \A j \in 1..Len(s) : IsDigit(s[j])

Failed == [ok |-> FALSE, v |-> 0]

Parsed(n) == [ok |-> TRUE, v |-> n]

\* int(s): an optional sign followed by digits; anything else is a ValueError.
ParseInt(s) ==
    IF AllDigits(s) THEN Parsed(StrToNat(s))
    ELSE IF Len(s) > 1 /\ s[1] = "-" /\ AllDigits(Tail(s))
         THEN Parsed(0 - StrToNat(Tail(s)))
    ELSE IF Len(s) > 1 /\ s[1] = "+" /\ AllDigits(Tail(s))
         THEN Parsed(StrToNat(Tail(s)))
    ELSE Failed

\* repr of a float with an integral value, as json.dump writes it: "10.0".
FloatRepr(p) == NatToStr(p) \o <<".", "0">>

\* A JSON number token, or the argument of float(): digits, optionally
\* followed by ".0".  Prices of the model are non-negative and integral.
ParseFloat(s) ==
    IF AllDigits(s) THEN Parsed(StrToNat(s))
    ELSE IF Len(s) > 2 /\ s[Len(s) - 1] = "." /\ s[Len(s)] = "0"
            /\ AllDigits(SubSeq(s, 1, Len(s) - 2))
         THEN Parsed(StrToNat(SubSeq(s, 1, Len(s) - 2)))
    ELSE Failed

\* str.upper() on the symbols users type.
Upper(s) ==
    CASE s = "btc" -> "BTC"
      [] s = "eth" -> "ETH"
      [] s = "xxx" -> "XXX"
      [] OTHER -> s

(* ------------------------------- dicts ---------------------------------- *)

\* A Python dict is a sequence of <<key, value>> pairs in insertion order.
Keys(d) == {d[j][1] : j \in 1..Len(d)}

Has(d, k) == k \in Keys(d)

KeyIndex(d, k) == CHOOSE j \in 1..Len(d) : d[j][1] = k

Get(d, k) == d[KeyIndex(d, k)][2]

Put(d, k, v) ==
    IF Has(d, k) THEN [d EXCEPT ![KeyIndex(d, k)] = <<k, v>>]
    ELSE Append(d, <<k, v>>)

\* list.pop(idx) with a 0-based index inside the list; a negative index
\* counts from the end.
PopIndex(list, idx) == IF idx < 0 THEN idx + Len(list) ELSE idx

Pop(list, idx) ==
    SubSeq(list, 1, PopIndex(list, idx))
        \o SubSeq(list, PopIndex(list, idx) + 2, Len(list))

\* list.pop(idx) raises IndexError.
PopRaises(list, idx) == idx >= Len(list) \/ idx < 0 - Len(list)

Range(s) == {s[j] : j \in 1..Len(s)}

(* ---------------------------- alert records ----------------------------- *)

\* An alert dict of the store.  oid is the identity of the Python object:
\* two alerts with the same three values are still two alerts.  The JSON
\* file does not hold it.
Alert(symbol, condition, price, oid) ==
    [symbol |-> symbol, condition |-> condition, price |-> price, oid |-> oid]

NoAlert == Alert("", "", 0, 0)

\* The value of an alert as == and json.dump see it.
AlertValue(a) ==
    [symbol |-> a.symbol, condition |-> a.condition, price |-> a.price]

\* The value of the whole store (dict equality ignores insertion order).
StoreValue(d) ==
    [k \in Keys(d) |-> [j \in 1..Len(Get(d, k)) |-> AlertValue(Get(d, k)[j])]]

AllAlerts(d) == UNION {Range(d[j][2]) : j \in 1..Len(d)}

(* ------------------------------ the file -------------------------------- *)

MissingFile == [kind |-> "missing", obj |-> <<>>]

EmptyFile == [kind |-> "empty", obj |-> <<>>]

\* Text that is not JSON, e.g. what a write that failed half way leaves.
InvalidFile == [kind |-> "invalid", obj |-> <<>>]

\* Valid JSON whose top-level value is not an object, e.g. [].
ArrayFile == [kind |-> "array", obj |-> <<>>]

JsonAlert(a) ==
    [symbol |-> a.symbol, condition |-> a.condition, price |-> FloatRepr(a.price)]

JsonList(list) == [j \in 1..Len(list) |-> JsonAlert(list[j])]

\* json.dump(user_alerts): an object whose keys are the chat ids as strings.
Dump(d) ==
    [kind |-> "object",
     obj |-> [j \in 1..Len(d) |-> <<IntToStr(d[j][1]), JsonList(d[j][2])>>]]

\* Alert objects created by json.loads for the entries before entry j.
RECURSIVE LoadedBefore(_, _)
LoadedBefore(obj, j) ==
    IF j = 1 THEN 0 ELSE LoadedBefore(obj, j - 1) + Len(obj[j - 1][2])

LoadList(jl, base) ==
    [m \in 1..Len(jl) |->
        Alert(jl[m].symbol, jl[m].condition, ParseFloat(jl[m].price).v, base + m)]

\* {int(k): v for k, v in json.loads(content).items()}
RECURSIVE LoadObject(_, _)
LoadObject(obj, n) ==
    IF n = 0 THEN <<>>
    ELSE Put(LoadObject(obj, n - 1), ParseInt(obj[n][1]).v,
             LoadList(obj[n][2], LoadedBefore(obj, n)))

\* load_alerts_from_file raises: .items() of a value that is no dict is an
\* AttributeError, int(k) of a key that is no integer is a ValueError, and
\* line 47 catches neither.
LoadRaises(f) ==
    \/ f.kind = "array"
    \/ f.kind = "object" /\ \E j \in 1..Len(f.obj) : ~ParseInt(f.obj[j][1]).ok

\* load_alerts_from_file: the store it assigns when it does not raise.
Load(f) ==
    CASE f.kind = "missing" -> <<>>
      [] f.kind = "empty" -> <<>>
      [] f.kind = "invalid" -> <<>>
      [] OTHER -> LoadObject(f.obj, Len(f.obj))

\* The outcome of open('alerts.json', 'w') followed by json.dump: the dict is
\* written, or the write raises after the file was truncated and the
\* exception is logged.
WriteOutcomes == {"ok", "dump_failed"}

\* A save that lets the exception of a failed write out.
SaveRaisesOnFailure(w) == w # "ok"

\* save_alerts_to_file raises: never, lines 35-36 catch every Exception and
\* log it.
SaveRaises(w) == FALSE

\* A save that writes nothing.
SaveSkipped(d, f, w) == f

\* save_alerts_to_file: the new content of the file.
Save(d, f, w) == IF w = "ok" THEN Dump(d) ELSE InvalidFile

(* ------------------------------- state ---------------------------------- *)

VARIABLES
    user_alerts,          \* the global dict: chat id -> list of alerts
    all_binance_symbols,  \* the symbol cache, filled once at startup
    file,                 \* the content of alerts.json
    next_oid,             \* identity of the next alert object created
    write_failed,         \* some save_alerts_to_file call has failed so far
    last,                 \* what the last command handler answered
    chart,                \* where get_chart is, and what its chat shows
    pc,                   \* where price_checker is
    alerts_copy,          \* price_checker: keys of user_alerts.copy()
    current_prices,       \* price_checker: symbol -> fetched price
    lookups,              \* get_symbol_ticker calls of this run, per symbol
    chat_pos,             \* price_checker: position in alerts_copy.items()
    i,                    \* price_checker: enumerate index in the chat's list
    alert,                \* price_checker: the alert whose message is sent
    alerts_to_remove,     \* price_checker: chat id -> queued indices
    sent_to,              \* <<chat, alert>>: send_message calls of this run
    notified,             \* alerts whose message this run sent
    send_failed,          \* alerts whose message this run failed to send
    removed,              \* alerts this run popped from the store
    interleaved,          \* a command handler ran during this run
    run_writes            \* save_alerts_to_file calls of this run

store_vars == <<user_alerts, all_binance_symbols, file, next_oid, write_failed, last,
                chart>>

checker_vars == <<pc, alerts_copy, current_prices, lookups, chat_pos, i, alert,
                  alerts_to_remove, sent_to, notified, send_failed, removed, run_writes>>

vars == <<store_vars, checker_vars, interleaved>>

(* ------------------------------- startup -------------------------------- *)

\* Stores a previous run of the bot can have saved.
InitStores ==
    {<<>>, <<<<1, <<>>>>>>, <<<<-2, <<Alert("BTC", ">", 10, 1)>>>>>>}

InitFiles == {MissingFile, EmptyFile, InvalidFile} \cup {Dump(d) : d \in InitStores}

\* populate_symbols_cache: the TRADING symbols at startup.  ETH is listed
\* later, so /alert finds it only through the live ticker lookup.
SymbolCaches == {<<"BTC">>}

NoLast == [cmd |-> "none", replies |-> <<>>, raised |-> FALSE]

\* No /chart request is being handled.  status is the state of the status
\* message of line 104: none (not posted), loading, no_data, error (edited to
\* one of the two notices) or deleted.
\* closes is the Close column of the candles, rsi the RSI_14 column.
NoChart ==
    [at |-> "idle", days |-> 0, listed |-> FALSE, status |-> "none", photo |-> FALSE,
     replies |-> <<>>, raised |-> FALSE, failure |-> "none", edit_failed |-> FALSE,
     closes |-> <<>>, rsi |-> <<>>]

CheckerIdle ==
    /\ pc = "idle"
    /\ alerts_copy = <<>>
    /\ current_prices = <<>>
    /\ lookups = <<>>
    /\ chat_pos = 1
    /\ i = 0
    /\ alert = NoAlert
    /\ alerts_to_remove = <<>>
    /\ sent_to = {}
    /\ notified = {}
    /\ send_failed = {}
    /\ removed = {}
    /\ interleaved = FALSE
    /\ run_writes = 0

\* main(): load_alerts_from_file, populate_symbols_cache, then run_polling.
Init ==
    /\ file \in InitFiles
    /\ user_alerts = Load(file)
    /\ next_oid = Cardinality(AllAlerts(Load(file))) + 1
    /\ all_binance_symbols \in SymbolCaches
    /\ write_failed = FALSE
    /\ last = NoLast
    /\ chart = NoChart
    /\ CheckerIdle

(* --------------------------- command handlers --------------------------- *)

\* A handler runs when the checker is not running or is suspended in an
\* await, and no other update is being handled (updates are processed one
\* at a time).
HandlerCanRun == pc \in {"idle", "sending"} /\ chart.at = "idle"

\* reply_text inside the try block, then reply_text of the except block if
\* the first raised; the handler raises if that one raises too.
Answer(cmd, first, fallback, r1, r2) ==
    [cmd |-> cmd,
     replies |-> IF r1 THEN <<first>> ELSE <<first, fallback>>,
     raised |-> ~r1 /\ ~r2]

\* An exception inside the try block: only the except block replies.
AnswerExcept(cmd, fallback, r2) ==
    [cmd |-> cmd, replies |-> <<fallback>>, raised |-> ~r2]

Silent(cmd) == [cmd |-> cmd, replies |-> <<>>, raised |-> FALSE]

\* binance_client.get_symbol_ticker(symbol=...) in set_alert succeeded.
TickerFound(symbol, net) == symbol \in ListedSymbols /\ net

InCache(symbol) == symbol \in Range(all_binance_symbols)

\* The store after lines 200-203.
AppendAlert(d, chat, a) ==
    IF Has(d, chat) THEN Put(d, chat, Append(Get(d, chat), a))
    ELSE Put(d, chat, <<a>>)

\* Well-formed arguments of /alert.
CoreAlertArgs == {<<"BTC", ">", <<"1", "0">>>>, <<"eth", "<", <<"1", "0">>>>}

\* Arguments of /alert: well-formed, none, two, four, an unknown symbol, a
\* condition that is no operator, a price that is no number.
AlertArgs ==
    CoreAlertArgs \cup
    {<<>>, <<"BTC", ">">>, <<"BTC", ">", <<"1", "0">>, "now">>,
     <<"xxx", ">", <<"1", "0">>>>, <<"BTC", "=", <<"1", "0">>>>,
     <<"BTC", ">", <<"a">>>>}

\* A validation that forgets the condition.
AlertAcceptedAnyCondition(args, net) ==
    /\ Len(args) = 3
    /\ ParseFloat(args[3]).ok
    /\ InCache(Upper(args[1])) \/ TickerFound(Upper(args[1]), net)

\* set_alert accepts the arguments (lines 182-198).
AlertAccepted(args, net) ==
    /\ Len(args) = 3
    /\ ParseFloat(args[3]).ok
    /\ InCache(Upper(args[1])) \/ TickerFound(Upper(args[1]), net)
    /\ args[2] \in {">", "<"}

\* What set_alert answers.
AlertAnswer(args, net, r1, r2) ==
    IF Len(args) # 3 THEN Answer("alert", "usage", "format_error", r1, r2)
    ELSE IF ~ParseFloat(args[3]).ok THEN AnswerExcept("alert", "format_error", r2)
    ELSE IF ~(InCache(Upper(args[1])) \/ TickerFound(Upper(args[1]), net))
         THEN Answer("alert", "not_found", "format_error", r1, r2)
    ELSE IF args[2] \notin {">", "<"}
         THEN Answer("alert", "only_gt_lt", "format_error", r1, r2)
    ELSE Answer("alert", "alert_set", "format_error", r1, r2)

\* set_alert
set_alert(chat, args, net, r1, r2) ==
    /\ HandlerCanRun
    /\ IF AlertAccepted(args, net)
       THEN /\ next_oid <= MaxAlerts
            /\ user_alerts' = AppendAlert(user_alerts, chat,
                   Alert(Upper(args[1]), args[2], ParseFloat(args[3]).v, next_oid))
            /\ next_oid' = next_oid + 1
            /\ \E w \in WriteOutcomes :
                  /\ file' = Save(user_alerts', file, w)
                  /\ write_failed' = (write_failed \/ w # "ok")
                  /\ last' = IF SaveRaises(w)
                             THEN AnswerExcept("alert", "format_error", r2)
                             ELSE AlertAnswer(args, net, r1, r2)
       ELSE /\ last' = AlertAnswer(args, net, r1, r2)
            /\ UNCHANGED <<user_alerts, next_oid, file, write_failed>>
    /\ interleaved' = (interleaved \/ pc = "sending")
    /\ UNCHANGED <<all_binance_symbols, chart, checker_vars>>

\* A line numbered from zero.
ListingLineFromZero(idx, a) ==
    [number |-> NatToStr(idx), symbol |-> a.symbol, condition |-> a.condition,
     price |-> FloatRepr(a.price)]

\* Line 217, for the enumerate index idx:
\* f"{i + 1}. **{alert['symbol']}** {alert['condition']} {alert['price']}"
ListingLine(idx, a) ==
    [number |-> NatToStr(idx + 1), symbol |-> a.symbol, condition |-> a.condition,
     price |-> FloatRepr(a.price)]

\* The message my_alerts sends (lines 212-217).
MyAlertsMessage(d, chat) ==
    IF ~Has(d, chat) \/ Get(d, chat) = <<>>
    THEN [head |-> "no_alerts", lines |-> <<>>]
    ELSE [head |-> "your_alerts",
          lines |-> [j \in 1..Len(Get(d, chat)) |-> ListingLine(j - 1, Get(d, chat)[j])]]

\* my_alerts.  It has no try block: a reply that fails raises out of it.
my_alerts(chat, r1) ==
    /\ HandlerCanRun
    /\ last' = [cmd |-> "my_alerts", replies |-> <<MyAlertsMessage(user_alerts, chat)>>,
                raised |-> ~r1, chat |-> chat]
    /\ interleaved' = (interleaved \/ pc = "sending")
    /\ UNCHANGED <<user_alerts, file, next_oid, write_failed, all_binance_symbols,
                   chart, checker_vars>>

\* Arguments of /delete_alert: none, or one token.
IndexTokens == {IntToStr(n) : n \in -1..(MaxAlerts + 1)} \cup {<<"x">>}

DeleteArgs == {<<>>} \cup {<<t>> : t \in IndexTokens}

\* An index taken as 0-based.
DeleteIndexAsTyped(args) == ParseInt(args[1]).v

\* Line 224: the 0-based index of the 1-based number the user typed.
DeleteIndex(args) == ParseInt(args[1]).v - 1

\* A guard without the lower bound.
ValidIndexNoLowerBound(d, chat, idx) == Has(d, chat) /\ idx < Len(Get(d, chat))

\* The guard of line 225.
ValidIndex(d, chat, idx) == Has(d, chat) /\ 0 <= idx /\ idx < Len(Get(d, chat))

\* delete_alert pops (lines 223-226).
DeleteAccepted(d, chat, args) ==
    /\ Len(args) = 1
    /\ ParseInt(args[1]).ok
    /\ ValidIndex(d, chat, DeleteIndex(args))
    /\ ~PopRaises(Get(d, chat), DeleteIndex(args))

\* What delete_alert answers.
DeleteAnswer(d, chat, args, r1, r2) ==
    IF Len(args) # 1 THEN Silent("delete_alert")
    ELSE IF ~ParseInt(args[1]).ok THEN AnswerExcept("delete_alert", "error", r2)
    ELSE IF ValidIndex(d, chat, DeleteIndex(args))
         THEN (IF PopRaises(Get(d, chat), DeleteIndex(args))
               THEN AnswerExcept("delete_alert", "error", r2)
               ELSE Answer("delete_alert", "deleted", "error", r1, r2))
    ELSE Answer("delete_alert", "invalid_index", "error", r1, r2)

\* delete_alert
delete_alert(chat, args, r1, r2) ==
    /\ HandlerCanRun
    /\ IF DeleteAccepted(user_alerts, chat, args)
       THEN /\ user_alerts' = Put(user_alerts, chat,
                   Pop(Get(user_alerts, chat), DeleteIndex(args)))
            /\ \E w \in WriteOutcomes :
                  /\ file' = Save(user_alerts', file, w)
                  /\ write_failed' = (write_failed \/ w # "ok")
                  /\ last' = IF SaveRaises(w)
                             THEN AnswerExcept("delete_alert", "error", r2)
                             ELSE DeleteAnswer(user_alerts, chat, args, r1, r2)
       ELSE /\ last' = DeleteAnswer(user_alerts, chat, args, r1, r2)
            /\ UNCHANGED <<user_alerts, file, write_failed>>
    /\ interleaved' = (interleaved \/ pc = "sending")
    /\ UNCHANGED <<all_binance_symbols, next_oid, chart, checker_vars>>

(* ----------------------------- calculate_rsi ---------------------------- *)

\* Line 60 (length: int = 14) and line 131.
RsiLength == 14

\* Floats are modelled exactly: a fraction n/d with d > 0, an infinity or NaN.
Rat(n, d) == [kind |-> "num", n |-> n, d |-> d]

PInf == [kind |-> "+inf", n |-> 0, d |-> 1]

NInf == [kind |-> "-inf", n |-> 0, d |-> 1]

NaN == [kind |-> "nan", n |-> 0, d |-> 1]

\* A division that gives NaN whenever the divisor is zero.
DivZeroIsNaN(a, b) ==
    IF a.kind # "num" \/ b.kind # "num" \/ b.n = 0 THEN NaN
    ELSE IF b.n > 0 THEN Rat(a.n * b.d, a.d * b.n)
    ELSE Rat(0 - a.n * b.d, a.d * (0 - b.n))

\* a / b of two floats (line 64): x / 0 is an infinity of the sign of x, and
\* 0 / 0 is NaN.
Div(a, b) ==
    IF a.kind = "nan" \/ b.kind = "nan" THEN NaN
    ELSE IF a.kind # "num" THEN (IF b.kind # "num" THEN NaN ELSE a)
    ELSE IF b.kind # "num" THEN Rat(0, 1)
    ELSE IF b.n = 0 THEN (IF a.n > 0 THEN PInf ELSE IF a.n < 0 THEN NInf ELSE NaN)
    ELSE IF b.n > 0 THEN Rat(a.n * b.d, a.d * b.n)
    ELSE Rat(0 - a.n * b.d, a.d * (0 - b.n))

\* k + x and k - x for an integer k.
AddTo(k, x) == IF x.kind = "num" THEN Rat(k * x.d + x.n, x.d) ELSE x

SubFrom(k, x) ==
    CASE x.kind = "num" -> Rat(k * x.d - x.n, x.d)
      [] x.kind = "+inf" -> NInf
      [] x.kind = "-inf" -> PInf
      [] OTHER -> NaN

\* data.diff(): the first difference is NaN.
Diff(data) ==
    [t \in 1..Len(data) |-> IF t = 1 THEN NaN ELSE Rat(data[t] - data[t - 1], 1)]

\* delta.where(delta > 0, 0): NaN > 0 is false.
Gains(delta) ==
    [t \in 1..Len(delta) |->
        IF delta[t].kind = "num" /\ delta[t].n > 0 THEN delta[t].n ELSE 0]

\* -delta.where(delta < 0, 0)
Losses(delta) ==
    [t \in 1..Len(delta) |->
        0 - (IF delta[t].kind = "num" /\ delta[t].n < 0 THEN delta[t].n ELSE 0)]

RECURSIVE SumOf(_, _, _)
SumOf(x, from, to) == IF from > to THEN 0 ELSE x[to] + SumOf(x, from, to - 1)

\* rolling(window=length).mean(): NaN until the window is complete.
RollingMean(x, length) ==
    [t \in 1..Len(x) |->
        IF t < length THEN NaN ELSE Rat(SumOf(x, t - length + 1, t), length)]

\* calculate_rsi (lines 60-66).
calculate_rsi(data, length) ==
    [t \in 1..Len(data) |->
        SubFrom(100, Div(Rat(100, 1),
            AddTo(1, Div(RollingMean(Gains(Diff(data)), length)[t],
                         RollingMean(Losses(Diff(data)), length)[t]))))]

(* ----------------------------- inline_query ----------------------------- *)

\* Line 88: results[:20]
MaxSuggestions == 20

\* In the inline search symbols and queries are spelled out, one character
\* after the other, since the query is looked for inside the symbol.
UpperChar(c) ==
    CASE c = "a" -> "A"
      [] c = "b" -> "B"
      [] c = "c" -> "C"
      [] c = "d" -> "D"
      [] c = "z" -> "Z"
      [] OTHER -> c

\* str.upper()
UpperStr(str) == [j \in 1..Len(str) |-> UpperChar(str[j])]

\* The symbol starts with the query.
StartsWith(q, str) == Len(q) <= Len(str) /\ SubSeq(str, 1, Len(q)) = q

\* query in s
Contains(q, str) ==
    \E k \in 0..(Len(str) - Len(q)) : SubSeq(str, k + 1, k + Len(q)) = q

\* Line 82: the symbols of the cache that contain the query, in cache order.
Matches(cache, q) == SelectSeq(cache, LAMBDA sym : Contains(q, sym))

\* results[:20]
FirstOf(list, n) == SubSeq(list, 1, IF Len(list) < n THEN Len(list) ELSE n)

\* Lines 84-88: one article per symbol.
Article(sym) ==
    [id |-> sym, title |-> sym,
     text |-> <<"/", "c", "h", "a", "r", "t", " ">> \o sym \o <<" ", "1", "d">>]

\* What inline_query passes to answer().
InlineResults(cache, query) ==
    [j \in 1..Len(FirstOf(Matches(cache, UpperStr(query)), MaxSuggestions)) |->
        Article(FirstOf(Matches(cache, UpperStr(query)), MaxSuggestions)[j])]

\* inline_query.  A query of fewer than two characters is not answered; the
\* handler has no try block, so an answer() that fails raises out of it.
inline_query(query, r1) ==
    /\ HandlerCanRun
    /\ last' = IF Len(UpperStr(query)) < 2
               THEN [cmd |-> "inline_query", query |-> query, replies |-> <<>>,
                     raised |-> FALSE]
               ELSE [cmd |-> "inline_query", query |-> query,
                     replies |-> <<InlineResults(all_binance_symbols, query)>>,
                     raised |-> ~r1]
    /\ interleaved' = (interleaved \/ pc = "sending")
    /\ UNCHANGED <<user_alerts, file, next_oid, write_failed, all_binance_symbols,
                   chart, checker_vars>>

(* ------------------------------ get_chart ------------------------------- *)

\* Line 101: the day count when none is given.
DefaultDays == 30

\* Line 102: the range the day count is clamped to.
MinDays == 1

MaxDays == 200

\* min(max(days, 1), 200)
Clamp(days) ==
    IF days < MinDays THEN MinDays ELSE IF days > MaxDays THEN MaxDays ELSE days

\* Arguments of /chart: none, one, symbol and interval, an unknown symbol, a
\* day count inside, below and above the range, one that is no number, and
\* an extra argument.
ChartArgs ==
    {<<>>, <<"btc">>, <<"btc", "1d">>, <<"xxx", "1d">>,
     <<"btc", "1d", <<"5">>>>, <<"btc", "1d", <<"0">>>>,
     <<"btc", "1d", <<"9", "9", "9">>>>, <<"btc", "1d", <<"x">>>>,
     <<"btc", "1d", <<"5">>, "z">>}

\* get_chart_start rejects the arguments (lines 96-101).
ChartRejected(args) == Len(args) < 2 \/ (Len(args) > 2 /\ ~ParseInt(args[3]).ok)

\* What get_chart answers by plain messages before the status message exists:
\* the usage text, or the notice of line 177 when line 101 or 104 raised.
ChartAnswer(args, r1, r2) ==
    IF Len(args) < 2 THEN Answer("chart", "usage", "error", r1, r2)
    ELSE IF Len(args) > 2 /\ ~ParseInt(args[3]).ok
         THEN AnswerExcept("chart", "error", r2)
    ELSE IF r1 THEN Silent("chart")
    ELSE AnswerExcept("chart", "error", r2)

\* Lines 93-104: the arguments are parsed and the status message is posted.
get_chart_start(args, r1, r2) ==
    /\ HandlerCanRun
    /\ chart' =
          [NoChart EXCEPT
              !.at = IF ~ChartRejected(args) /\ r1 THEN "fetch" ELSE "done",
              !.days = IF ChartRejected(args) THEN 0
                       ELSE IF Len(args) > 2 THEN Clamp(ParseInt(args[3]).v)
                       ELSE Clamp(DefaultDays),
              !.listed = Len(args) >= 2 /\ Upper(args[1]) \in ListedSymbols,
              !.status = IF ~ChartRejected(args) /\ r1 THEN "loading" ELSE "none",
              !.replies = ChartAnswer(args, r1, r2).replies,
              !.raised = ChartAnswer(args, r1, r2).raised]
    /\ interleaved' = (interleaved \/ pc = "sending")
    /\ UNCHANGED <<user_alerts, all_binance_symbols, file, next_oid, write_failed, last,
                   checker_vars>>

\* What get_historical_klines can do: return candles (of a listed pair
\* only), return none, or raise.
KlinesOutcomes == {"klines", "empty", "raises"}

\* The closing prices of a history of len candles that starts at 40 and
\* moves by step[1], step[2], step[1], ... from candle to candle.
Closes(len, step) ==
    [t \in 1..len |-> 40 + ((t - 1) \div 2) * (step[1] + step[2])
                          + (IF t % 2 = 0 THEN step[1] ELSE 0)]

\* Histories: rising, falling, flat and mixed ones; shorter than the RSI
\* window, as long, and longer.
CloseSeries ==
    {Closes(len, step) : len \in {3, RsiLength, MaxCloses},
                         step \in (-2..2) \X (-2..2)}

\* Lines 111-113.
get_chart_fetch(outcome, closes) ==
    /\ chart.at = "fetch"
    /\ outcome = "klines" => chart.listed
    /\ (outcome = "klines") <=> (closes # <<>>)
    /\ chart' =
          CASE outcome = "klines" -> [chart EXCEPT !.at = "render", !.closes = closes]
            [] outcome = "empty" -> [chart EXCEPT !.at = "no_data", !.failure = "empty"]
            [] OTHER -> [chart EXCEPT !.at = "except", !.failure = "fetch"]
    /\ UNCHANGED <<user_alerts, all_binance_symbols, file, next_oid, write_failed, last,
                   checker_vars, interleaved>>

\* Lines 114-115: the status message is edited to the "no data" notice.
get_chart_no_data(ok) ==
    /\ chart.at = "no_data"
    /\ chart' = IF ok THEN [chart EXCEPT !.at = "done", !.status = "no_data"]
                ELSE [chart EXCEPT !.at = "except", !.edit_failed = TRUE]
    /\ UNCHANGED <<user_alerts, all_binance_symbols, file, next_oid, write_failed, last,
                   checker_vars, interleaved>>

\* Lines 118-158: the dataframe, the indicators and the plot.
get_chart_render(ok) ==
    /\ chart.at = "render"
    /\ chart' = IF ok THEN [chart EXCEPT !.at = "delete",
                                         !.rsi = calculate_rsi(chart.closes, RsiLength)]
                ELSE [chart EXCEPT !.at = "except", !.failure = "render"]
    /\ UNCHANGED <<user_alerts, all_binance_symbols, file, next_oid, write_failed, last,
                   checker_vars, interleaved>>

\* Line 160: the status message is deleted.
get_chart_delete(ok) ==
    /\ chart.at = "delete"
    /\ chart' = IF ok THEN [chart EXCEPT !.at = "photo", !.status = "deleted"]
                ELSE [chart EXCEPT !.at = "except", !.failure = "delete"]
    /\ UNCHANGED <<user_alerts, all_binance_symbols, file, next_oid, write_failed, last,
                   checker_vars, interleaved>>

\* Line 161: the photo is sent.
get_chart_photo(ok) ==
    /\ chart.at = "photo"
    /\ chart' = IF ok THEN [chart EXCEPT !.at = "done", !.photo = TRUE]
                ELSE [chart EXCEPT !.at = "except", !.failure = "photo"]
    /\ UNCHANGED <<user_alerts, all_binance_symbols, file, next_oid, write_failed, last,
                   checker_vars, interleaved>>

\* Lines 169-175, status_message set: the status message is edited to the
\* generic notice; an edit that raises is passed over.  A message that was
\* deleted cannot be edited: that edit always raises.
get_chart_except(ok) ==
    /\ chart.at = "except"
    /\ chart.status = "deleted" => ~ok
    /\ chart' =
          IF ok THEN [chart EXCEPT !.at = "done", !.status = "error"]
          ELSE [chart EXCEPT !.at = "done",
                             !.edit_failed = (chart.edit_failed \/ chart.status # "deleted")]
    /\ UNCHANGED <<user_alerts, all_binance_symbols, file, next_oid, write_failed, last,
                   checker_vars, interleaved>>

\* get_chart returns; its locals are gone.
get_chart_return ==
    /\ chart.at = "done"
    /\ chart' = NoChart
    /\ UNCHANGED <<user_alerts, all_binance_symbols, file, next_oid, write_failed, last,
                   checker_vars, interleaved>>

(* ---------------------------- price_checker ----------------------------- *)

\* The distinct symbols of the alerts of the snapshot (lines 242-245).
UniqueSymbols(d) == {a.symbol : a \in AllAlerts(d)}

\* One lookup for every alert on the symbol.
TickerCallsPerAlert(d) ==
    [sym \in UniqueSymbols(d) |-> Cardinality({a \in AllAlerts(d) : a.symbol = sym})]

\* Lines 249-252: the loop over the set calls get_symbol_ticker once for each
\* of its elements.
TickerCalls(d) == [sym \in UniqueSymbols(d) |-> 1]

\* Lines 248-256: each symbol gets a price, or its lookup fails and it is skipped.
PriceFetches(symbols) == UNION {[S -> Prices] : S \in SUBSET symbols}

\* Line 261.
HasPrice(a, prices) == a.symbol \in DOMAIN prices

\* A comparison that also fires at the threshold.
TriggeredAtThreshold(a, prices) ==
    \/ a.condition = ">" /\ prices[a.symbol] >= a.price
    \/ a.condition = "<" /\ prices[a.symbol] <= a.price

\* Line 267.
Triggered(a, prices) ==
    \/ a.condition = ">" /\ prices[a.symbol] > a.price
    \/ a.condition = "<" /\ prices[a.symbol] < a.price

\* Lines 272-273.
Queue(atr, chat, index) ==
    [c \in DOMAIN atr \cup {chat} |->
        IF c \in DOMAIN atr
        THEN (IF c = chat THEN Append(atr[c], index) ELSE atr[c])
        ELSE <<index>>]

Max(S) == CHOOSE m \in S : \A x \in S : x <= m

RemoveAt(s, j) == SubSeq(s, 1, j - 1) \o SubSeq(s, j + 1, Len(s))

\* The indices in the order they were queued.
SortedAsQueued(s) == s

\* sorted(indices, reverse=True)
RECURSIVE SortedReverse(_)
SortedReverse(s) ==
    IF s = <<>> THEN <<>>
    ELSE LET m == Max(Range(s))
             j == CHOOSE k \in 1..Len(s) : s[k] = m
         IN <<m>> \o SortedReverse(RemoveAt(s, j))

\* Lines 280-282 for one chat: pop each index that is still inside the list.
RECURSIVE PopEach(_, _)
PopEach(list, indices) ==
    IF indices = <<>> THEN list
    ELSE PopEach(IF Head(indices) < Len(list) THEN Pop(list, Head(indices)) ELSE list,
                 Tail(indices))

\* Lines 278-282: the store after the removal loop.
RemoveQueued(d, atr) ==
    [j \in 1..Len(d) |->
        IF d[j][1] \in DOMAIN atr
        THEN <<d[j][1], PopEach(d[j][2], SortedReverse(atr[d[j][1]]))>>
        ELSE d[j]]

\* The chat whose list the loop of line 258 is in, and that list.  The copy
\* of line 239 is shallow: alerts_copy[chat] is the very list object that
\* user_alerts[chat] is, so the loop reads the list as it is now.
CurrentChat == alerts_copy[chat_pos]

CurrentList == Get(user_alerts, CurrentChat)

\* The chat whose list the loop started with.
RecipientOfFirstList == alerts_copy[1]

\* Line 270: send_message(chat_id=chat_id, ...), chat_id being the key of
\* the list the loop is in.
Recipient == CurrentChat

\* Lines 235-256: the early return, the snapshot and the price lookups.
price_checker_start(prices) ==
    /\ pc = "idle"
    /\ IF user_alerts = <<>>
       THEN /\ pc' = "done"
            /\ prices = <<>>
            /\ UNCHANGED <<alerts_copy, current_prices, lookups>>
       ELSE /\ pc' = "loop"
            /\ alerts_copy' = [j \in 1..Len(user_alerts) |-> user_alerts[j][1]]
            /\ lookups' = TickerCalls(user_alerts)
            /\ prices \in PriceFetches(DOMAIN lookups')
            /\ current_prices' = prices
    /\ UNCHANGED <<store_vars, chat_pos, i, alert, alerts_to_remove, sent_to, notified,
                   send_failed, removed, run_writes, interleaved>>

\* Lines 258-269: one step of the two nested loops, up to the await.
price_checker_step ==
    /\ pc = "loop"
    /\ IF chat_pos > Len(alerts_copy)
       THEN /\ pc' = "remove"
            /\ UNCHANGED <<chat_pos, i, alert, sent_to>>
       ELSE IF i >= Len(CurrentList)
       THEN /\ chat_pos' = chat_pos + 1
            /\ i' = 0
            /\ UNCHANGED <<pc, alert, sent_to>>
       ELSE IF HasPrice(CurrentList[i + 1], current_prices)
               /\ Triggered(CurrentList[i + 1], current_prices)
       THEN /\ pc' = "sending"
            /\ alert' = CurrentList[i + 1]
            /\ sent_to' = sent_to \cup {<<Recipient, CurrentList[i + 1]>>}
            /\ UNCHANGED <<chat_pos, i>>
       ELSE /\ i' = i + 1
            /\ UNCHANGED <<pc, chat_pos, alert, sent_to>>
    /\ UNCHANGED <<store_vars, alerts_copy, current_prices, lookups, alerts_to_remove,
                   notified, send_failed, removed, run_writes, interleaved>>

\* Lines 270-273: send_message returned; the index is queued.
send_message_ok ==
    /\ pc = "sending"
    /\ pc' = "loop"
    /\ alerts_to_remove' = Queue(alerts_to_remove, CurrentChat, i)
    /\ notified' = notified \cup {alert}
    /\ i' = i + 1
    /\ alert' = NoAlert
    /\ UNCHANGED <<store_vars, alerts_copy, current_prices, lookups, chat_pos, sent_to,
                   send_failed, removed, run_writes, interleaved>>

\* Lines 274-275: send_message raised; the error is logged.
send_message_failed ==
    /\ pc = "sending"
    /\ pc' = "loop"
    /\ send_failed' = send_failed \cup {alert}
    /\ i' = i + 1
    /\ alert' = NoAlert
    /\ UNCHANGED <<store_vars, alerts_copy, current_prices, lookups, chat_pos, sent_to,
                   alerts_to_remove, notified, removed, run_writes, interleaved>>

\* Lines 277-283: the removal loop and the save.
price_checker_remove ==
    /\ pc = "remove"
    /\ pc' = "done"
    /\ IF DOMAIN alerts_to_remove # {}
       THEN /\ user_alerts' = RemoveQueued(user_alerts, alerts_to_remove)
            /\ \E w \in WriteOutcomes :
                  /\ file' = Save(user_alerts', file, w)
                  /\ write_failed' = (write_failed \/ w # "ok")
            /\ run_writes' = run_writes + 1
       ELSE /\ UNCHANGED <<user_alerts, file, write_failed, run_writes>>
    /\ removed' = AllAlerts(user_alerts) \ AllAlerts(user_alerts')
    /\ UNCHANGED <<all_binance_symbols, next_oid, last, chart, alerts_copy, current_prices,
                   lookups, chat_pos, i, alert, alerts_to_remove, sent_to, notified,
                   send_failed, interleaved>>

\* The job returns; its locals are gone until the next run.
price_checker_return ==
    /\ pc = "done"
    /\ pc' = "idle"
    /\ alerts_copy' = <<>>
    /\ current_prices' = <<>>
    /\ lookups' = <<>>
    /\ chat_pos' = 1
    /\ i' = 0
    /\ alert' = NoAlert
    /\ alerts_to_remove' = <<>>
    /\ sent_to' = {}
    /\ notified' = {}
    /\ send_failed' = {}
    /\ removed' = {}
    /\ interleaved' = FALSE
    /\ run_writes' = 0
    /\ UNCHANGED store_vars

(* ------------------------------- the bot -------------------------------- *)

\* The numbers users send with /delete_alert while the checker runs.
CoreDeleteArgs == {<<IntToStr(n)>> : n \in 1..MaxAlerts}

\* The bot with its checker job.  The commands are well-formed and their
\* replies are delivered; a number may still be out of range for the chat.
Next ==
    \/ \E chat \in Chats, args \in CoreAlertArgs :
            set_alert(chat, args, TRUE, TRUE, TRUE)
    \/ \E chat \in Chats, args \in CoreDeleteArgs :
            delete_alert(chat, args, TRUE, TRUE)
    \/ \E prices \in PriceFetches(ListedSymbols) : price_checker_start(prices)
    \/ price_checker_step
    \/ send_message_ok
    \/ send_message_failed
    \/ price_checker_remove
    \/ price_checker_return

Spec == Init /\ [][Next]_vars

\* Whether the first reply_text and the one of the except block succeed.
ReplyOutcomes == {<<TRUE, TRUE>>, <<FALSE, TRUE>>, <<FALSE, FALSE>>}

\* The stores that /alert commands creating the objects oid..MaxAlerts can
\* make of the store d.
Grow(d, oid) ==
    {AppendAlert(d, chat, Alert(Upper(args[1]), args[2], ParseFloat(args[3]).v, oid)) :
        chat \in Chats, args \in CoreAlertArgs}

RECURSIVE Grown(_, _)
Grown(d, oid) ==
    IF oid > MaxAlerts THEN {d}
    ELSE {d} \cup UNION {Grown(e, oid + 1) : e \in Grow(d, oid)}

\* The bot after startup and some /alert commands whose saves succeeded, when
\* no checker run is under way.
InitDelete ==
    /\ \E f \in InitFiles :
          \E d \in Grown(Load(f), Cardinality(AllAlerts(Load(f))) + 1) :
             /\ user_alerts = d
             /\ file = (IF d = Load(f) THEN f ELSE Dump(d))
             /\ next_oid = Cardinality(AllAlerts(d)) + 1
    /\ all_binance_symbols \in SymbolCaches
    /\ write_failed = FALSE
    /\ last = NoLast
    /\ chart = NoChart
    /\ CheckerIdle

\* /delete_alert on every kind of argument and reply outcome.
NextDelete ==
    \E chat \in Chats, args \in DeleteArgs, r \in ReplyOutcomes :
        delete_alert(chat, args, r[1], r[2])

SpecDelete == InitDelete /\ [][NextDelete]_vars

\* /alert on every kind of argument, with the ticker lookup reachable or
\* not, and every reply outcome.
NextAlert ==
    \E chat \in Chats, args \in AlertArgs, net \in BOOLEAN, r \in ReplyOutcomes :
        set_alert(chat, args, net, r[1], r[2])

SpecAlert == InitDelete /\ [][NextAlert]_vars

\* The three alert commands, no checker run under way: well-formed /alert,
\* /my_alerts, and /delete_alert on every kind of argument.
NextListing ==
    \/ \E chat \in Chats, args \in CoreAlertArgs :
            set_alert(chat, args, TRUE, TRUE, TRUE)
    \/ \E chat \in Chats, r1 \in BOOLEAN : my_alerts(chat, r1)
    \/ \E chat \in Chats, args \in DeleteArgs, r \in ReplyOutcomes :
            delete_alert(chat, args, r[1], r[2])

SpecListing == InitDelete /\ [][NextListing]_vars

\* /chart requests, one at a time, with every outcome of the market-data,
\* rendering and messaging calls.
NextChart ==
    \/ \E args \in ChartArgs, r \in ReplyOutcomes : get_chart_start(args, r[1], r[2])
    \/ \E outcome \in KlinesOutcomes, closes \in CloseSeries \cup {<<>>} :
            get_chart_fetch(outcome, closes)
    \/ \E ok \in BOOLEAN : get_chart_no_data(ok)
    \/ \E ok \in BOOLEAN : get_chart_render(ok)
    \/ \E ok \in BOOLEAN : get_chart_delete(ok)
    \/ \E ok \in BOOLEAN : get_chart_photo(ok)
    \/ \E ok \in BOOLEAN : get_chart_except(ok)
    \/ get_chart_return

SpecChart == Init /\ [][NextChart]_vars

\* The n-th pair the exchange lists: three of four are AB pairs.
ListedPair(n) ==
    (IF n % 4 = 0 THEN <<"C", "D">> ELSE <<"A", "B">>) \o NatToStr(n)

\* populate_symbols_cache: the pairs trading at startup, in the order the
\* exchange gives them (ascending or descending here); none if the call fails.
InlineCaches ==
    {[j \in 1..n |-> ListedPair(j)] : n \in 0..MaxSymbols} \cup
    {[j \in 1..n |-> ListedPair(n + 1 - j)] : n \in 0..MaxSymbols}

\* What users type after the bot's name.
Queries ==
    {<<>>, <<"a">>, <<"a", "b">>, <<"A", "B">>, <<"b", "1">>, <<"c", "d">>,
     <<"z", "z">>, <<"b", "2", "2">>, <<"1">>}

InitInline ==
    /\ all_binance_symbols \in InlineCaches
    /\ user_alerts = <<>>
    /\ file = MissingFile
    /\ next_oid = 1
    /\ write_failed = FALSE
    /\ last = NoLast
    /\ chart = NoChart
    /\ CheckerIdle

NextInline == \E query \in Queries, r1 \in BOOLEAN : inline_query(query, r1)

SpecInline == InitInline /\ [][NextInline]_vars

(* ------------------------------- startup files ------------------------- *)

SeqsUpTo(S, n) == UNION {[1..m -> S] : m \in 0..n}

\* Keys an alerts.json can hold: chat ids as json.dump writes them, and
\* strings that are no integers.
KeyTokens == {IntToStr(chat) : chat \in Chats} \cup {<<"x">>, <<"1", ".", "5">>}

\* The JSON form of the alerts /alert creates.
SavedAlerts ==
    {JsonAlert(Alert(Upper(args[1]), args[2], ParseFloat(args[3]).v, 0)) :
        args \in CoreAlertArgs}

\* What main() can find on disk: no file, an empty file, text that is not
\* JSON, JSON that is not an object, or an object (saved by the bot or edited
\* by hand) with as many entries as there are chats.
StartupFiles ==
    {MissingFile, EmptyFile, InvalidFile, ArrayFile} \cup
    {[kind |-> "object", obj |-> o] :
        o \in SeqsUpTo(KeyTokens \X SeqsUpTo(SavedAlerts, MaxAlerts), Cardinality(Chats))}

\* main() has not called load_alerts_from_file yet.
Starting == [cmd |-> "main", replies |-> <<>>, raised |-> FALSE]

\* The module is imported (line 27: user_alerts = {}), main() is entered.
InitLoad ==
    /\ file \in StartupFiles
    /\ user_alerts = <<>>
    /\ next_oid = 1
    /\ all_binance_symbols = <<>>
    /\ write_failed = FALSE
    /\ last = Starting
    /\ chart = NoChart
    /\ CheckerIdle

\* Line 303: main() calls load_alerts_from_file.  An exception it does not
\* catch leaves main() and ends the process.
load_alerts_from_file ==
    /\ last = Starting
    /\ last' = [cmd |-> "load_alerts_from_file", replies |-> <<>>,
                raised |-> LoadRaises(file)]
    /\ IF LoadRaises(file)
       THEN UNCHANGED <<user_alerts, next_oid>>
       ELSE /\ user_alerts' = Load(file)
            /\ next_oid' = Cardinality(AllAlerts(Load(file))) + 1
    /\ UNCHANGED <<all_binance_symbols, file, write_failed, chart, checker_vars,
                   interleaved>>

SpecLoad == InitLoad /\ [][load_alerts_from_file]_vars

(* ------------------------------ properties ------------------------------ *)

StoreAlerts == AllAlerts(user_alerts)

\* The alerts for which this run called send_message.
Attempted == notified \cup send_failed

\* C1: every alert a price_checker run removes from the store is an alert
\* for which that same run successfully sent a notification, whatever
\* commands run while the checker is suspended in send_message.
C1_RemovedWereNotified == removed \subseteq notified

\* C2: every alert for which a price_checker run successfully sent a
\* notification is absent from the store when that run ends.
C2_NotifiedAreGone == pc = "done" => notified \cap StoreAlerts = {}

\* C3: an alert whose notification failed to send in a price_checker run is
\* not removed by that run.
C3_FailedSendNotRemoved == pc = "done" => send_failed \cap removed = {}

\* The rule of the specification: a price was fetched for the symbol and it
\* is strictly beyond the threshold on the side the condition names.
ShouldNotify(a, prices) ==
    /\ a.symbol \in DOMAIN prices
    /\ prices[a.symbol] # a.price
    /\ (a.condition = ">") => (prices[a.symbol] > a.price)
    /\ (a.condition = "<") => (prices[a.symbol] < a.price)
    /\ a.condition \in {">", "<"}

\* The loop of line 259 is about to examine an alert.
Examining == pc = "loop" /\ chat_pos <= Len(alerts_copy) /\ i < Len(CurrentList)

C5_FailedFetchUntouched ==
    pc = "done" =>
        \A a \in (Attempted \cup removed) : a.symbol \in DOMAIN current_prices

\* The list without the elements at the 0-based positions of S.
RECURSIVE Without(_, _)
Without(list, S) ==
    IF list = <<>> THEN <<>>
    ELSE IF (Len(list) - 1) \in S
         THEN Without(SubSeq(list, 1, Len(list) - 1), S)
         ELSE Append(Without(SubSeq(list, 1, Len(list) - 1), S), list[Len(list)])

QueuedFor(chat) ==
    IF chat \in DOMAIN alerts_to_remove THEN Range(alerts_to_remove[chat]) ELSE {}

\* C6: when no command ran during the run, the removal step deletes from each
\* chat's list exactly the queued positions and keeps the other records in
\* order; a run that queued a removal calls save_alerts_to_file once, a run
\* that queued none does not call it and leaves store and file alone.
C6_RemovalStepExact ==
    [][/\ (pc = "remove" /\ ~interleaved) =>
            /\ Len(user_alerts') = Len(user_alerts)
            /\ \A j \in 1..Len(user_alerts) :
                  /\ user_alerts'[j][1] = user_alerts[j][1]
                  /\ user_alerts'[j][2] =
                        Without(user_alerts[j][2], QueuedFor(user_alerts[j][1]))
       /\ pc = "remove" =>
            /\ run_writes' = (IF DOMAIN alerts_to_remove # {} THEN 1 ELSE 0)
            /\ (DOMAIN alerts_to_remove = {}) =>
                  (user_alerts' = user_alerts /\ file' = file)
       /\ (pc = "idle" /\ pc' = "done") => run_writes' = 0
       /\ pc \in {"loop", "sending"} => run_writes' = 0
      ]_vars

\* A run without interleaved commands removed two alerts of one chat at once.
C6_Witness ==
    /\ pc = "done"
    /\ ~interleaved
    /\ run_writes = 1
    /\ \E chat \in DOMAIN alerts_to_remove :
          /\ Len(alerts_to_remove[chat]) >= 2
          /\ Cardinality(removed) = Len(alerts_to_remove[chat])

\* What a reload of the file gives equals the store in memory.
FileMatchesStore(f, d) ==
    /\ f.kind = "object"
    /\ StoreValue(Load(f)) = StoreValue(d)

\* C7: /delete_alert k with 1 <= k <= n, n the length of the caller chat's
\* list, removes exactly the k-th record of that list, keeps the other
\* records in order, leaves the other chats alone, answers "deleted" and
\* writes the resulting store to the file (the file holds it unless the
\* write fails); deleting the only alert leaves an empty list.
C7_DeleteRemovesKth ==
    [][last'.cmd = "delete_alert" =>
        \A chat \in Chats, k \in 1..(MaxAlerts + 1) :
          (Has(user_alerts, chat) /\ k <= Len(Get(user_alerts, chat))) =>
            \A r \in ReplyOutcomes :
              delete_alert(chat, <<IntToStr(k)>>, r[1], r[2]) =>
                /\ Keys(user_alerts') = Keys(user_alerts)
                /\ Len(Get(user_alerts', chat)) = Len(Get(user_alerts, chat)) - 1
                /\ \A j \in 1..Len(Get(user_alerts', chat)) :
                      Get(user_alerts', chat)[j] =
                         Get(user_alerts, chat)[IF j < k THEN j ELSE j + 1]
                /\ \A other \in Keys(user_alerts) \ {chat} :
                      Get(user_alerts', other) = Get(user_alerts, other)
                /\ Head(last'.replies) = "deleted"
                /\ \/ FileMatchesStore(file', user_alerts')
                   \/ write_failed' /\ file' = InvalidFile
      ]_vars

\* /delete_alert 1 emptied a chat's list and the file holds the empty list.
C7_Witness ==
    /\ last.cmd = "delete_alert"
    /\ last.replies = <<"deleted">>
    /\ next_oid > 1
    /\ StoreAlerts = {}
    /\ file.kind = "object"
    /\ \E j \in 1..Len(file.obj) : file.obj[j][2] = <<>>
    /\ FileMatchesStore(file, user_alerts)

\* C8: /delete_alert with a number that is zero, negative or greater than
\* the length of the caller chat's list, or from a chat without a list,
\* leaves store and file unchanged and answers the invalid-index message;
\* the handler raises only when no reply at all can be delivered.  (For
\* every chat and number: the outcome holds, or the number is in range, or
\* the step is not that command.)
C8_InvalidIndexRejected ==
    [][last'.cmd = "delete_alert" =>
        \A chat \in Chats, k \in -1..(MaxAlerts + 1), r \in ReplyOutcomes :
          \/ /\ user_alerts' = user_alerts
             /\ file' = file
             /\ write_failed' = write_failed
             /\ last'.replies # <<>>
             /\ Head(last'.replies) = "invalid_index"
             /\ last'.raised => (~r[1] /\ ~r[2])
          \/ Has(user_alerts, chat) /\ 1 <= k /\ k <= Len(Get(user_alerts, chat))
          \/ ~delete_alert(chat, <<IntToStr(k)>>, r[1], r[2])
      ]_vars

\* An out-of-range /delete_alert was answered while the store holds alerts.
C8_Witness ==
    /\ last.cmd = "delete_alert"
    /\ last.replies = <<"invalid_index">>
    /\ ~last.raised
    /\ StoreAlerts # {}

\* C9: as long as no write has failed, the file holds the store in memory at
\* every point where a handler or the checker can run, whatever /alert,
\* /delete_alert and checker removals happened and however they interleaved.
C9_FileHoldsStore ==
    ~write_failed => StoreValue(Load(file)) = StoreValue(user_alerts)

\* A checker run with a command in between removed an alert, and every write
\* so far succeeded.
C9_Witness ==
    /\ ~write_failed
    /\ pc = "done"
    /\ interleaved
    /\ removed # {}
    /\ next_oid > MaxAlerts
    /\ file.kind = "object"

\* The keys of a dict in insertion order.
KeyOrder(d) == [j \in 1..Len(d) |-> d[j][1]]

\* C10: saving the store and loading the saved file gives the same mapping:
\* the same integer chat ids in the same order, and for each chat the same
\* records in the same order, empty lists included.
C10_SaveLoadRoundTrip ==
    /\ StoreValue(Load(Save(user_alerts, file, "ok"))) = StoreValue(user_alerts)
    /\ KeyOrder(Load(Save(user_alerts, file, "ok"))) = KeyOrder(user_alerts)

\* The store holds a negative chat id with an alert and a chat with an empty
\* list.
C10_Witness ==
    /\ \E chat \in Keys(user_alerts) : chat < 0 /\ Get(user_alerts, chat) # <<>>
    /\ \E chat \in Keys(user_alerts) : Get(user_alerts, chat) = <<>>

\* The file holds what a previous run of the bot saved.
SavedByBot(f) ==
    /\ f.kind = "object"
    /\ \A j \in 1..Len(f.obj) : ParseInt(f.obj[j][1]).ok

\* C11: load_alerts_from_file never fails the process: for a missing file,
\* an empty file or malformed content (invalid JSON, JSON that is not an
\* object, an object whose keys are not integers) it returns normally with
\* the store set to the empty mapping.
C11_LoadNeverFails ==
    last.cmd = "load_alerts_from_file" =>
        /\ ~last.raised
        /\ ~SavedByBot(file) => user_alerts = <<>>

\* The step is a command handler's: every step of the checker moves it.
HandlerStep == checker_vars' = checker_vars

\* C12: a failed file write does not stop the mutation: the handler still
\* answers its success message and does not raise, the store in memory keeps
\* the change whatever the write's outcome (so later commands and checker
\* runs work on it), a failed write leaves the file unusable but the store
\* changed, and every later write that succeeds puts the full current store
\* into the file.
C12_WriteFailureDegraded ==
    [][/\ (HandlerStep /\ last'.replies \in {<<"alert_set">>, <<"deleted">>}) =>
            /\ user_alerts' # user_alerts
            /\ Cardinality(AllAlerts(user_alerts')) =
                  Cardinality(StoreAlerts) + (IF last'.cmd = "alert" THEN 1 ELSE -1)
       /\ (HandlerStep /\ user_alerts' # user_alerts) =>
            /\ ~last'.raised
            /\ last'.replies \in {<<"alert_set">>, <<"deleted">>}
       /\ (write_failed' /\ ~write_failed) =>
            /\ HandlerStep => user_alerts' # user_alerts
            /\ file' = InvalidFile
       /\ user_alerts' # user_alerts =>
            \/ FileMatchesStore(file', user_alerts')
            \/ write_failed' /\ file' = InvalidFile
       /\ (pc = "remove" /\ ~interleaved /\ DOMAIN alerts_to_remove # {}) =>
            /\ pc' = "done"
            /\ user_alerts' # user_alerts
      ]_vars

\* After a write that failed, a later mutation was saved: the file holds
\* the store, which is not empty.
C12_Witness ==
    /\ write_failed
    /\ StoreAlerts # {}
    /\ FileMatchesStore(file, user_alerts)

\* The arguments are what the specification asks of an /alert command.
WellFormedAlert(args, net) ==
    /\ Len(args) = 3
    /\ args[2] \in {">", "<"}
    /\ \/ Upper(args[1]) \in Range(all_binance_symbols)
       \/ net /\ Upper(args[1]) \in ListedSymbols
    /\ ParseFloat(args[3]).ok

\* The alerts of the store after the step that were not in it before.
Added == AllAlerts(user_alerts') \ StoreAlerts

\* Reply outcomes that give the answer the step recorded: the first reply
\* succeeded iff one reply was made, the last one failed iff the handler
\* raised.
FirstReplied == Len(last'.replies) = 1

LastReplied == ~last'.raised

\* C13: an /alert command appends one record, made of the uppercased symbol,
\* the condition and the parsed price, at the end of the caller chat's list
\* (creating the list if the chat has none) when it has three arguments, a
\* numeric price, a symbol of the cache or one a live ticker lookup finds,
\* and a condition '>' or '<'; any other /alert leaves store and file
\* unchanged; so every record added has condition '>' or '<' and is the last
\* of its list.  (A step that changed neither store nor file is no
\* well-formed /alert; any other step is, for every /alert it can be, a
\* well-formed one with the outcome above.)
C13_AlertAppendsOnlyValid ==
    [][/\ \A a \in Added :
            /\ a.condition \in {">", "<"}
            /\ \E chat \in Keys(user_alerts') :
                  /\ Get(user_alerts', chat) # <<>>
                  /\ Get(user_alerts', chat)[Len(Get(user_alerts', chat))] = a
       /\ last'.cmd = "alert" =>
            IF user_alerts' = user_alerts /\ file' = file
            THEN \A args \in AlertArgs, net \in BOOLEAN :
                    WellFormedAlert(args, net) =>
                        \A chat \in Chats :
                            ~set_alert(chat, args, net, FirstReplied, LastReplied)
            ELSE \A chat \in Chats, args \in AlertArgs, net \in BOOLEAN :
                    \/ /\ WellFormedAlert(args, net)
                       /\ Cardinality(Added) = 1
                       /\ Keys(user_alerts') = Keys(user_alerts) \cup {chat}
                       /\ \A a \in Added :
                             /\ AlertValue(a) =
                                   [symbol |-> Upper(args[1]), condition |-> args[2],
                                    price |-> ParseFloat(args[3]).v]
                             /\ Get(user_alerts', chat) =
                                   (IF Has(user_alerts, chat)
                                    THEN Get(user_alerts, chat) ELSE <<>>) \o <<a>>
                       /\ \A other \in Keys(user_alerts) \ {chat} :
                             Get(user_alerts', other) = Get(user_alerts, other)
                    \/ ~set_alert(chat, args, net, FirstReplied, LastReplied)
      ]_vars

\* An /alert for a symbol the cache lacks was accepted through the ticker
\* lookup and its record is the second of the chat's list.
C13_Witness ==
    /\ last.cmd = "alert"
    /\ last.replies = <<"alert_set">>
    /\ \E chat \in Keys(user_alerts) :
          /\ Len(Get(user_alerts, chat)) = 2
          /\ Get(user_alerts, chat)[2].symbol = "ETH"
          /\ Get(user_alerts, chat)[2].oid = next_oid - 1

\* The list of a chat, empty when the chat has none.
ListOf(d, chat) == IF Has(d, chat) THEN Get(d, chat) ELSE <<>>

\* C14: /my_alerts changes nothing and lists exactly the caller chat's
\* alerts in list order, line j carrying the decimal number j and the j-th
\* record's symbol, condition and price; a /delete_alert sent right after
\* with the number shown on a line removes exactly the record of that line;
\* a chat whose only alert came from /alert BTC > 10 is shown the single
\* line "1. BTC > 10.0".
C14_ListingMatchesDelete ==
    [][/\ last'.cmd = "my_alerts" =>
            LET shown == last'.replies[1].lines
                list == ListOf(user_alerts, last'.chat)
            IN /\ user_alerts' = user_alerts
               /\ file' = file
               /\ Len(shown) = Len(list)
               /\ \A j \in 1..Len(list) :
                     /\ ParseInt(shown[j].number) = Parsed(j)
                     /\ shown[j].symbol = list[j].symbol
                     /\ shown[j].condition = list[j].condition
                     /\ ParseFloat(shown[j].price) = Parsed(list[j].price)
               /\ (Len(list) = 1 /\ AlertValue(list[1]) =
                        [symbol |-> "BTC", condition |-> ">", price |-> 10]) =>
                     shown = <<[number |-> <<"1">>, symbol |-> "BTC", condition |-> ">",
                                price |-> <<"1", "0", ".", "0">>]>>
       /\ (last.cmd = "my_alerts" /\ last'.cmd = "delete_alert") =>
            \A j \in 1..Len(last.replies[1].lines) :
               delete_alert(last.chat, <<last.replies[1].lines[j].number>>,
                            FirstReplied, LastReplied) =>
                  /\ StoreAlerts \ AllAlerts(user_alerts') = {Get(user_alerts, last.chat)[j]}
                  /\ Head(last'.replies) = "deleted"
      ]_vars

\* /my_alerts listed the two alerts of a chat.
C14_Witness ==
    /\ last.cmd = "my_alerts"
    /\ ~last.raised
    /\ Len(last.replies[1].lines) = 2
    /\ last.replies[1].lines[2].number = <<"2">>

\* C15: a /chart request that posted the status message ends with it deleted
\* and the photo sent when nothing failed, edited to the "no data" notice when
\* the candle history was empty, and edited to the generic notice when the
\* market-data call, the rendering, the deletion or the photo failed; it is
\* never left as posted.  (Requests in which an edit of the existing status
\* message itself failed are not counted.)
C15_StatusMessageResolved ==
    (chart.at = "done" /\ chart.status # "none" /\ ~chart.edit_failed) =>
        CASE chart.failure = "none" -> chart.status = "deleted" /\ chart.photo
          [] chart.failure = "empty" -> chart.status = "no_data"
          [] OTHER -> chart.status = "error"

\* The answer is not the success message of /alert or /delete_alert: the
\* command was refused.
Refused(answer) ==
    answer.replies = <<>> \/ Head(answer.replies) \notin {"alert_set", "deleted"}

\* C16: a /chart, /alert or /delete_alert command with malformed input
\* (wrong number of arguments, a price, index or day count that is no
\* number, an unknown symbol, an index out of range) leaves the store
\* unchanged and is answered with a message; the handler raises only when no
\* message at all can be delivered.
C16_MalformedAnswered ==
    [][/\ (last'.cmd \in {"alert", "delete_alert"} /\ HandlerStep /\ Refused(last')) =>
            /\ user_alerts' = user_alerts
            /\ last'.replies # <<>>
            /\ last'.raised => Len(last'.replies) = 2 \/ Head(last'.replies) \in {"format_error", "error"}
       /\ (chart'.at = "done" /\ chart.at = "idle") =>
            /\ user_alerts' = user_alerts
            /\ chart'.replies # <<>>
      ]_vars

\* The number of get_symbol_ticker calls of the run.
RECURSIVE CallCount(_, _)
CallCount(calls, symbols) ==
    IF symbols = {} THEN 0
    ELSE LET sym == CHOOSE x \in symbols : TRUE
         IN calls[sym] + CallCount(calls, symbols \ {sym})

\* C17: a price_checker run looks the price up once for each distinct symbol
\* of the alerts in the store when it starts, however many alerts name the
\* symbol: the number of lookups is the number of distinct symbols; no lookup
\* is added later in the run; prices are kept only for symbols looked up; a
\* run over an empty store, or over chats without alerts, looks nothing up
\* and sends nothing.
C17_OneLookupPerSymbol ==
    [][/\ (pc = "idle" /\ pc' # "idle") =>
            /\ DOMAIN lookups' = {a.symbol : a \in StoreAlerts}
            /\ \A sym \in DOMAIN lookups' : lookups'[sym] = 1
            /\ CallCount(lookups', DOMAIN lookups') = Cardinality({a.symbol : a \in StoreAlerts})
            /\ DOMAIN current_prices' \subseteq DOMAIN lookups'
            /\ user_alerts = <<>> => pc' = "done"
       /\ pc \in {"loop", "sending", "remove"} => lookups' = lookups
       /\ (pc' # "idle" /\ DOMAIN lookups' = {}) => (notified' = {} /\ send_failed' = {})
       /\ (pc' = "sending") => DOMAIN lookups' # {}
      ]_vars

\* A run over two alerts on the same symbol made one lookup and notified both.
C17_Witness ==
    /\ pc = "done"
    /\ Cardinality(notified) = 2
    /\ CallCount(lookups, DOMAIN lookups) = 1

\* The positions of the cache whose symbol contains q.
MatchPositions(q) ==
    {p \in 1..Len(all_binance_symbols) :
        \E k \in 0..Len(all_binance_symbols[p]) :
            /\ k + Len(q) <= Len(all_binance_symbols[p])
            /\ \A m \in 1..Len(q) : all_binance_symbols[p][k + m] = q[m]}

\* The suggestions are the symbols at the first MaxSuggestions matching
\* positions, in cache order, each with the text "/chart <symbol> 1d".
FirstMatchesSuggested(q, res) ==
    /\ Len(res) <= MaxSuggestions
    /\ Len(res) = (IF Cardinality(MatchPositions(q)) < MaxSuggestions
                   THEN Cardinality(MatchPositions(q)) ELSE MaxSuggestions)
    /\ \A j \in 1..Len(res) :
          \E p \in MatchPositions(q) :
             /\ Cardinality({x \in MatchPositions(q) : x < p}) = j - 1
             /\ res[j].id = all_binance_symbols[p]
             /\ res[j].text =
                   <<"/", "c", "h", "a", "r", "t", " ">> \o all_binance_symbols[p]
                      \o <<" ", "1", "d">>

\* The suggestions the last inline query was answered with.
Suggested == IF last.replies = <<>> THEN <<>> ELSE last.replies[1]

\* C18 as stated: every inline query is answered with the first 20 symbols
\* of the cache, in cache order, that contain the uppercased query, each
\* suggesting "/chart <symbol> 1d".
C18_InlineSuggestions ==
    last.cmd = "inline_query" =>
        FirstMatchesSuggested(UpperStr(last.query), Suggested)

\* C18 amended: an inline query of at least two characters is answered with
\* the first 20 symbols of the cache, in cache order, that contain the
\* uppercased query, each suggesting "/chart <symbol> 1d"; a shorter query
\* is not answered at all.
C18_InlineSuggestionsFromTwoChars ==
    last.cmd = "inline_query" =>
        IF Len(last.query) >= 2
        THEN /\ Len(last.replies) = 1
             /\ FirstMatchesSuggested(UpperStr(last.query), Suggested)
        ELSE last.replies = <<>> /\ ~last.raised

\* A lower-case query that more than 20 symbols of the cache contain got 20
\* suggestions.
C18_Witness ==
    /\ last.cmd = "inline_query"
    /\ last.query = <<"a", "b">>
    /\ Len(Suggested) = MaxSuggestions
    /\ Cardinality(MatchPositions(UpperStr(last.query))) > MaxSuggestions

StrictlyIncreasing(data) == \A t \in 2..Len(data) : data[t] > data[t - 1]

StrictlyDecreasing(data) == \A t \in 2..Len(data) : data[t] < data[t - 1]

\* The float is the number k.
IsNumber(x, k) == x.kind = "num" /\ x.n = k * x.d

\* C19: the RSI column calculate_rsi computes from the closes is undefined
\* (NaN) before the 14th candle; from the 14th candle on it is 100 when the
\* closes rise strictly and 0 when they fall strictly; and every value that
\* is defined is a number from 0 to 100.
C19_RsiExtremesAndRange ==
    chart.rsi # <<>> =>
        /\ Len(chart.rsi) = Len(chart.closes)
        /\ \A t \in 1..Len(chart.rsi) :
              /\ t < 14 => chart.rsi[t].kind = "nan"
              /\ (t >= 14 /\ StrictlyIncreasing(chart.closes)) => IsNumber(chart.rsi[t], 100)
              /\ (t >= 14 /\ StrictlyDecreasing(chart.closes)) => IsNumber(chart.rsi[t], 0)
              /\ chart.rsi[t].kind # "nan" =>
                    /\ chart.rsi[t].kind = "num"
                    /\ 0 <= chart.rsi[t].n
                    /\ chart.rsi[t].n <= 100 * chart.rsi[t].d

\* The RSI of a strictly rising history longer than the window was computed.
C19_Witness ==
    /\ chart.rsi # <<>>
    /\ Len(chart.closes) > 14
    /\ StrictlyIncreasing(chart.closes)
    /\ IsNumber(chart.rsi[Len(chart.rsi)], 100)

\* The chats whose list the step changed or created.
ChangedChats ==
    {chat \in Chats :
        \/ Has(user_alerts', chat) # Has(user_alerts, chat)
        \/ ListOf(user_alerts', chat) # ListOf(user_alerts, chat)}

\* The chats to which this run has delivered a notification.
NotifiedChats == {x[1] : x \in {y \in sent_to : y[2] \in notified}}

\* C20: alerts are isolated per chat.  A command changes the list of at most
\* one chat, and no command of another chat would have made that change; what
\* /my_alerts shows a chat is what it would show if the store held that
\* chat's list alone; the checker
\* calls send_message for an alert with the chat in whose list the alert is;
\* its removal step changes only lists of chats it has notified in this run,
\* and every alert it removes was in the list of such a chat; no other step
\* of the checker changes any list.
C20_ChatsIsolated ==
    [][IF user_alerts' = user_alerts
       THEN /\ (pc = "loop" /\ pc' = "sending") =>
                 /\ Cardinality(sent_to' \ sent_to) = 1
                 /\ \A x \in sent_to' \ sent_to :
                       x[2] = alert' /\ x[2] \in Range(ListOf(user_alerts, x[1]))
            /\ pc = "remove" => removed' = {}
       ELSE /\ \A chat \in Chats :
                 MyAlertsMessage(user_alerts', chat)
                     = MyAlertsMessage(<<<<chat, ListOf(user_alerts', chat)>>>>, chat)
            /\ IF HandlerStep
               THEN /\ Cardinality(ChangedChats) = 1
                    /\ \A chat \in Chats \ ChangedChats :
                          /\ \A args \in CoreAlertArgs :
                                user_alerts' # AppendAlert(user_alerts, chat,
                                    Alert(Upper(args[1]), args[2],
                                          ParseFloat(args[3]).v, next_oid))
                          /\ \A args \in CoreDeleteArgs :
                                DeleteAccepted(user_alerts, chat, args) =>
                                    user_alerts' # Put(user_alerts, chat,
                                        Pop(Get(user_alerts, chat), DeleteIndex(args)))
               ELSE /\ pc = "remove"
                    /\ ChangedChats \subseteq NotifiedChats
                    /\ removed' # {}
                    /\ \A a \in removed' :
                          \E chat \in NotifiedChats :
                              a \in Range(ListOf(user_alerts, chat))
      ]_vars

\* A run notified and emptied the list of one chat while the other chat
\* keeps its alert.
C20_Witness ==
    /\ pc = "done"
    /\ removed # {}
    /\ Cardinality(NotifiedChats) = 1
    /\ \E chat \in Keys(user_alerts) \ NotifiedChats : Get(user_alerts, chat) # <<>>
    /\ \A chat \in NotifiedChats : Get(user_alerts, chat) = <<>>

====
